---------------------------- MODULE Spec2Model ----------------------------
(***************************************************************************)
(* Model of src/src/app.py: the LLM bridge call_llm, the alternate         *)
(* provider bridge call_openai and the Flask handlers index_get and        *)
(* index_post.                                                             *)
(*                                                                         *)
(* Text.  A Python str is a sequence of runs [c |-> symbol, n |-> length]: *)
(* the symbol repeated until the run is n characters long.  A symbol is a  *)
(* single character ("x", "SP" for a blank, "NL" for a newline, a digit)   *)
(* or a literal of the source, named in Latin letters and carried with     *)
(* its length in characters.  Adjacent runs never share a symbol, so equal *)
(* strings are equal values, and the 10000-character ceiling of the source *)
(* is kept as it is.                                                       *)
(*                                                                         *)
(* Values.  A Python object is a record [t |-> type, s |-> text,           *)
(* items |-> elements]; a dict keeps its items as key/value pairs in       *)
(* insertion order.                                                        *)
(***************************************************************************)
EXTENDS Integers, Sequences, FiniteSets, TLC

VARIABLES pc, op, model_name, messages, form, endpoint, OPENAI_API_KEY,
          outcome, calls, posts, page

vars == <<pc, op, model_name, messages, form, endpoint, OPENAI_API_KEY,
          outcome, calls, posts, page>>

(***************************************************************************)
(* Text                                                                    *)
(***************************************************************************)
Run(c, n) == [c |-> c, n |-> n]

Lit(c, n) == <<Run(c, n)>>

Empty == <<>>

Whitespace == {"SP", "NL"}

NL == Lit("NL", 1)

\* len(s)
RECURSIVE PyLen(_)
PyLen(s) == IF s = <<>> THEN 0 ELSE Head(s).n + PyLen(Tail(s))

\* s + t
Cat(s, t) ==
    IF s = <<>> THEN t
    ELSE IF t = <<>> THEN s
    ELSE IF s[Len(s)].c = t[1].c
         THEN SubSeq(s, 1, Len(s) - 1)
                \o <<Run(t[1].c, s[Len(s)].n + t[1].n)>>
                \o Tail(t)
         ELSE s \o t

RECURSIVE LStrip(_)
LStrip(s) ==
    IF s = <<>> THEN s
    ELSE IF Head(s).c \in Whitespace THEN LStrip(Tail(s)) ELSE s

RECURSIVE RStrip(_)
RStrip(s) ==
    IF s = <<>> THEN s
    ELSE IF s[Len(s)].c \in Whitespace
         THEN RStrip(SubSeq(s, 1, Len(s) - 1))
         ELSE s

\* str.strip()
Strip(s) == RStrip(LStrip(s))

\* sep.join(parts)
RECURSIVE Join(_, _)
Join(sep, parts) ==
    IF parts = <<>> THEN Empty
    ELSE IF Len(parts) = 1 THEN parts[1]
    ELSE Cat(Cat(parts[1], sep), Join(sep, Tail(parts)))

\* sub in s
Contains(s, sub) ==
    \/ sub = <<>>
    \/ /\ Len(sub) = 1
       /\ \E i \in 1..Len(s) : s[i].c = sub[1].c /\ s[i].n >= sub[1].n
    \/ /\ Len(sub) >= 2
       /\ \E i \in 1..(Len(s) - Len(sub) + 1) :
            /\ s[i].c = sub[1].c /\ s[i].n >= sub[1].n
            /\ \A j \in 2..(Len(sub) - 1) : s[i + j - 1] = sub[j]
            /\ s[i + Len(sub) - 1].c = sub[Len(sub)].c
            /\ s[i + Len(sub) - 1].n >= sub[Len(sub)].n

\* s.startswith(pre)
StartsWith(s, pre) ==
    \/ pre = <<>>
    \/ /\ Len(s) >= Len(pre)
       /\ \A j \in 1..(Len(pre) - 1) : s[j] = pre[j]
       /\ s[Len(pre)].c = pre[Len(pre)].c
       /\ s[Len(pre)].n >= pre[Len(pre)].n

Digit(d) == Lit(CASE d = 0 -> "0" [] d = 1 -> "1" [] d = 2 -> "2" [] d = 3 -> "3"
                  [] d = 4 -> "4" [] d = 5 -> "5" [] d = 6 -> "6" [] d = 7 -> "7"
                  [] d = 8 -> "8" [] d = 9 -> "9", 1)

\* str(n) of a non-negative int
RECURSIVE Decimal(_)
Decimal(n) == IF n < 10 THEN Digit(n) ELSE Cat(Decimal(n \div 10), Digit(n % 10))

(***************************************************************************)
(* Python values                                                           *)
(***************************************************************************)
PyStr(s)    == [t |-> "str",   s |-> s,     items |-> <<>>]
PyNone      == [t |-> "None",  s |-> Empty, items |-> <<>>]
PyInt(n)    == [t |-> "int",   s |-> Decimal(n), items |-> <<>>]
PyList(xs)  == [t |-> "list",  s |-> Empty, items |-> xs]
PyTuple(xs) == [t |-> "tuple", s |-> Empty, items |-> xs]
PyDict(kvs) == [t |-> "dict",  s |-> Empty, items |-> kvs]
Pair(k, v)  == [t |-> "pair",  s |-> Empty, items |-> <<k, v>>]

Key(p) == p.items[1]
Val(p) == p.items[2]

\* key in d, for a dict d and a str key
HasKey(d, key) == \E i \in 1..Len(d.items) : Key(d.items[i]) = PyStr(key)

\* d.get(key, default): the value of the last item stored under the key
DictGet(d, key, default) ==
    IF HasKey(d, key)
    THEN Val(d.items[CHOOSE i \in 1..Len(d.items) :
                        /\ Key(d.items[i]) = PyStr(key)
                        /\ \A j \in (i + 1)..Len(d.items) : Key(d.items[j]) # PyStr(key)])
    ELSE default

\* the characters repr() escapes: a newline becomes the two characters \n
RECURSIVE Escaped(_)
Escaped(s) ==
    IF s = <<>> THEN Empty
    ELSE Cat(IF Head(s).c = "NL" THEN Lit("\\n", 2 * Head(s).n) ELSE <<Head(s)>>,
             Escaped(Tail(s)))

\* repr(v) for the values a parsed JSON body is made of
RECURSIVE Repr(_)
RECURSIVE ReprItems(_)
ReprItems(xs) ==
    IF xs = <<>> THEN <<>> ELSE <<Repr(Head(xs))>> \o ReprItems(Tail(xs))

Repr(v) ==
    CASE v.t = "str"  -> Cat(Cat(Lit("'", 1), Escaped(v.s)), Lit("'", 1))
      [] v.t = "None" -> Lit("None", 4)
      [] v.t = "int"  -> v.s
      [] v.t = "pair" -> Cat(Cat(Repr(Key(v)), Cat(Lit(":", 1), Lit("SP", 1))), Repr(Val(v)))
      [] v.t = "list" ->
            Cat(Cat(Lit("[", 1), Join(Cat(Lit(",", 1), Lit("SP", 1)), ReprItems(v.items))),
                Lit("]", 1))
      [] v.t = "dict" ->
            Cat(Cat(Lit("{", 1), Join(Cat(Lit(",", 1), Lit("SP", 1)), ReprItems(v.items))),
                Lit("}", 1))

\* str(v), and the {v} of an f-string
Str(v) == IF v.t = "str" THEN v.s ELSE Repr(v)

\* the body text a server sends for a JSON value (json.dumps)
RECURSIVE Dumps(_)
RECURSIVE DumpsItems(_)
DumpsItems(xs) ==
    IF xs = <<>> THEN <<>> ELSE <<Dumps(Head(xs))>> \o DumpsItems(Tail(xs))

Dumps(v) ==
    CASE v.t = "str"  -> Cat(Cat(Lit("DQ", 1), Escaped(v.s)), Lit("DQ", 1))
      [] v.t = "None" -> Lit("null", 4)
      [] v.t = "int"  -> v.s
      [] v.t = "pair" -> Cat(Cat(Dumps(Key(v)), Cat(Lit(":", 1), Lit("SP", 1))), Dumps(Val(v)))
      [] v.t = "list" ->
            Cat(Cat(Lit("[", 1), Join(Cat(Lit(",", 1), Lit("SP", 1)), DumpsItems(v.items))),
                Lit("]", 1))
      [] v.t = "dict" ->
            Cat(Cat(Lit("{", 1), Join(Cat(Lit(",", 1), Lit("SP", 1)), DumpsItems(v.items))),
                Lit("}", 1))

(***************************************************************************)
(* The requests library as call_llm sees it                                *)
(***************************************************************************)
\* The exception classes of requests.exceptions an except clause of the
\* source can meet, each with its direct base classes.
Bases(cls) ==
    CASE cls = "RequestException"  -> {}
      [] cls = "Timeout"           -> {"RequestException"}
      [] cls = "ConnectionError"   -> {"RequestException"}
      [] cls = "ConnectTimeout"    -> {"ConnectionError", "Timeout"}
      [] cls = "ReadTimeout"       -> {"Timeout"}
      [] cls = "SSLError"          -> {"ConnectionError"}
      [] cls = "TooManyRedirects"  -> {"RequestException"}
      [] cls = "HTTPError"         -> {"RequestException"}
      [] cls = "InvalidJSONError"  -> {"RequestException"}
      [] cls = "JSONDecodeError"   -> {"InvalidJSONError", "ValueError"}
      [] OTHER                     -> {}

\* isinstance(e, base), as an except clause tests it
RECURSIVE IsInstance(_, _)
IsInstance(cls, base) ==
    \/ cls = base
    \/ \E b \in Bases(cls) : IsInstance(b, base)

\* What one requests.post does: it raises, or it returns a response with a
\* status code and a body.  The body is a JSON document (json_ok, data) or
\* some other text, on which resp.json() raises a ValueError: the
\* JSONDecodeError of requests, or the plain ValueError of its older releases
\* (cls).  text_ok is whether reading resp.text succeeds.
Raises(cls, msg) ==
    [k |-> "raise", cls |-> cls, msg |-> msg, status |-> 0,
     text_ok |-> TRUE, text |-> Empty, json_ok |-> FALSE, data |-> PyNone]

JsonResponse(status, data) ==
    [k |-> "response", cls |-> "", msg |-> Empty, status |-> status,
     text_ok |-> TRUE, text |-> Dumps(data), json_ok |-> TRUE, data |-> data]

TextResponse(status, text, cls) ==
    [k |-> "response", cls |-> cls, msg |-> Empty, status |-> status,
     text_ok |-> TRUE, text |-> text, json_ok |-> FALSE, data |-> PyNone]

UnreadableResponse(status) ==
    [k |-> "response", cls |-> "ValueError", msg |-> Empty, status |-> status,
     text_ok |-> FALSE, text |-> Empty, json_ok |-> FALSE, data |-> PyNone]

NoNet == Raises("", Empty)

(***************************************************************************)
(* call_llm                                                                *)
(***************************************************************************)
MENTORPIECE_API_ENDPOINT == Lit("https://api.mentorpiece.org/v1/process-ai-request", 49)

MaxPromptLen == 10000

LLM_TIMEOUT == 15

SP == Lit("SP", 1)

ERR_TYPE     == Lit("Oshibka: nekorrektnyj tip parametra messages", 43)
ERR_EMPTY    == Lit("Oshibka: pustoj prompt", 21)
ERR_TOO_LONG == Lit("Oshibka: slishkom dlinnyj tekst", 29)
ERR_401      == Lit("Oshibka: Unauthorized (401) ot Mentorpiece. Proverte znachenie MENTORPIECE_API_KEY.", 82)
NO_BODY      == Lit("<ne udalos prochitat telo otveta>", 34)
ERR_JSON     == Lit("Oshibka: poluchen nekorrektnyj JSON ot LLM", 40)
ERR_TIMEOUT  == Lit("Oshibka: tajmaut pri obrashchenii k LLM (timeout=15s)", 49)

\* f"Ошибка HTTP {status_code} от LLM: {body}"
ErrHttp(status_code, body) ==
    Cat(Cat(Cat(Cat(Cat(Cat(Lit("Oshibka HTTP", 11), SP), Decimal(status_code)), SP),
                Lit("ot LLM:", 7)), SP), body)

\* Mutant of ErrNoField: the diagnostic leaves the parsed body out.
ErrNoField_Mut(data) ==
    Cat(Lit("Oshibka: v otvete otsutstvuet pole 'response' -- polucheno:", 56), SP)

\* f"Ошибка: в ответе отсутствует поле 'response' — получено: {data}"
ErrNoField(data) ==
    Cat(Cat(Lit("Oshibka: v otvete otsutstvuet pole 'response' -- polucheno:", 56), SP),
        Str(data))

\* f"Ошибка соединения с LLM: {e}"
ErrConnection(e) == Cat(Cat(Lit("Oshibka soedineniya s LLM:", 24), SP), e)

\* f"Ошибка запроса к LLM: {e}"
ErrRequest(e) == Cat(Cat(Lit("Oshibka zaprosa k LLM:", 21), SP), e)

\* How a call ends: it returns a Python value or raises; posts are the HTTP
\* POSTs it made on the way.
Return(value, sent) == [kind |-> "return", value |-> value, exc |-> "", posts |-> sent]

Raise(exc, sent) == [kind |-> "raise", value |-> PyNone, exc |-> exc, posts |-> sent]

\* isinstance(messages, (str, list, tuple))
IsStrListTuple(v) == v.t \in {"str", "list", "tuple"}

\* if isinstance(messages, str): messages = [messages]
Normalize(v) == IF v.t = "str" THEN <<v>> ELSE v.items

\* m.strip() exists for a str only
HasStrip(m) == m.t = "str"

\* the first element the generator fails on, if any
StripFails(ms) == \E i \in 1..Len(ms) : ms[i].t # "None" /\ ~HasStrip(ms[i])

\* Mutant of StrippedParts: a None element is trimmed as an empty string
\* instead of being skipped.
RECURSIVE StrippedParts_Mut(_)
StrippedParts_Mut(ms) ==
    IF ms = <<>> THEN <<>>
    ELSE <<Strip(Head(ms).s)>> \o StrippedParts_Mut(Tail(ms))

\* (m.strip() for m in messages if m is not None)
RECURSIVE StrippedParts(_)
StrippedParts(ms) ==
    IF ms = <<>> THEN <<>>
    ELSE IF Head(ms).t = "None" THEN StrippedParts(Tail(ms))
    ELSE <<Strip(Head(ms).s)>> \o StrippedParts(Tail(ms))

\* "\n".join(...)
BuildPrompt(ms) == Join(NL, StrippedParts(ms))

\* not prompt or not prompt.strip()
IsBlank(prompt) == prompt = Empty \/ Strip(prompt) = Empty

\* len(prompt) > 10000
TooLong(prompt) == PyLen(prompt) > MaxPromptLen

\* the one requests.post of call_llm
LlmPost(name, prompt) ==
    [url |-> MENTORPIECE_API_ENDPOINT,
     json |-> [model_name |-> name, prompt |-> prompt],
     headers |-> {<<"Content-Type", Lit("application/json", 16)>>},
     timeout |-> LLM_TIMEOUT]

\* Mutant of ExtractResponse: the key counts as present only when its value
\* is truthy (if data.get("response"): ...).
ExtractResponse_Mut(data) ==
    IF data.t = "dict" /\ HasKey(data, Lit("response", 8))
         /\ DictGet(data, Lit("response", 8), PyNone).t = "str"
         /\ DictGet(data, Lit("response", 8), PyNone).s # Empty
    THEN DictGet(data, Lit("response", 8), PyNone)
    ELSE PyStr(ErrNoField(data))

\* if isinstance(data, dict) and "response" in data: ... else the diagnostic
ExtractResponse(data) ==
    IF data.t = "dict" /\ HasKey(data, Lit("response", 8))
    THEN LET val == DictGet(data, Lit("response", 8), PyNone)
         IN  IF val.t = "str" THEN val ELSE PyStr(Str(val))
    ELSE PyStr(ErrNoField(data))

\* Mutant of IsHttpError: the comparison is strict.
IsHttpError_Mut(status_code) == status_code > 400

\* resp.status_code >= 400
IsHttpError(status_code) == status_code >= 400

\* the body of the try block once requests.post has returned resp
HandleResponse(resp) ==
    IF IsHttpError(resp.status)
    THEN IF resp.status = 401
         THEN PyStr(ERR_401)
         ELSE PyStr(ErrHttp(resp.status, IF resp.text_ok THEN resp.text ELSE NO_BODY))
    ELSE IF ~resp.json_ok
         THEN PyStr(ERR_JSON)
         ELSE ExtractResponse(resp.data)

\* Mutant of HandleException: ConnectionError is caught before Timeout.
HandleException_Mut(sent, cls, msg) ==
    IF IsInstance(cls, "ConnectionError") THEN Return(PyStr(ErrConnection(msg)), sent)
    ELSE IF IsInstance(cls, "Timeout") THEN Return(PyStr(ERR_TIMEOUT), sent)
    ELSE IF IsInstance(cls, "RequestException") THEN Return(PyStr(ErrRequest(msg)), sent)
    ELSE Raise(cls, sent)

\* the except clauses, in the order of the source
HandleException(sent, cls, msg) ==
    IF IsInstance(cls, "Timeout") THEN Return(PyStr(ERR_TIMEOUT), sent)
    ELSE IF IsInstance(cls, "ConnectionError") THEN Return(PyStr(ErrConnection(msg)), sent)
    ELSE IF IsInstance(cls, "RequestException") THEN Return(PyStr(ErrRequest(msg)), sent)
    ELSE Raise(cls, sent)

\* call_llm(model_name, messages), with net what the endpoint does if asked
call_llm(name, msgs, net) ==
    IF ~IsStrListTuple(msgs) THEN Return(PyStr(ERR_TYPE), <<>>)
    ELSE IF StripFails(Normalize(msgs)) THEN Raise("AttributeError", <<>>)
    ELSE LET prompt == BuildPrompt(Normalize(msgs))
             sent   == <<LlmPost(name, prompt)>>
         IN  IF IsBlank(prompt) THEN Return(PyStr(ERR_EMPTY), <<>>)
             ELSE IF TooLong(prompt) THEN Return(PyStr(ERR_TOO_LONG), <<>>)
             ELSE IF net.k = "raise" THEN HandleException(sent, net.cls, net.msg)
             ELSE Return(HandleResponse(net), sent)

\* the literals every error string of call_llm starts with
ErrorHeads ==
    {ERR_TYPE[1].c, ERR_EMPTY[1].c, ERR_TOO_LONG[1].c, ERR_401[1].c, ERR_JSON[1].c,
     ERR_TIMEOUT[1].c, "Oshibka HTTP", "Oshibka soedineniya s LLM:",
     "Oshibka zaprosa k LLM:",
     "Oshibka: v otvete otsutstvuet pole 'response' -- polucheno:"}

IsErrorText(s) == s # Empty /\ s[1].c \in ErrorHeads

(***************************************************************************)
(* call_openai                                                             *)
(***************************************************************************)
OPENAI_URL == Lit("https://api.openai.com/v1/chat/completions", 42)

OPENAI_TIMEOUT == 20

OPENAI_MAX_TOKENS == 1024

\* The module never assigns OPENAI_API_KEY; a deployment or a test may bind
\* it from outside.  Unbound is the name not being bound.
Unbound == [t |-> "unbound", s |-> Empty, items |-> <<>>]

ERR_NO_KEY      == Lit("Oshibka: OPENAI_API_KEY ne zadan. Ustanovite peremennuyu okruzheniya OPENAI_API_KEY.", 80)
ERR_OPENAI_401  == Lit("Oshibka: Unauthorized (401) ot OpenAI. Proverte znachenie OPENAI_API_KEY; klyuch otsutstvuet ili nedejstvitelen.", 109)
ERR_OPENAI_JSON == Lit("Oshibka: poluchen nevernyj format otveta ot OpenAI (ne JSON)", 58)

\* f"Ошибка запроса к OpenAI: {e}"
ErrOpenAIRequest(e) == Cat(Cat(Lit("Oshibka zaprosa k OpenAI:", 24), SP), e)

\* bool(v)
Truthy(v) ==
    CASE v.t = "str"  -> v.s # Empty
      [] v.t = "None" -> FALSE
      [] v.t = "int"  -> v.s # Digit(0)
      [] OTHER        -> v.items # <<>>

\* the characters of a str, one str each (iterating a str)
RECURSIVE Chars(_)
Chars(s) ==
    IF s = <<>> THEN <<>>
    ELSE <<Lit(Head(s).c, 1)>>
           \o Chars(IF Head(s).n = 1 THEN Tail(s)
                    ELSE <<Run(Head(s).c, Head(s).n - 1)>> \o Tail(s))

\* "\n".join(messages) raises TypeError unless messages is an iterable of str
JoinFails(v) ==
    \/ v.t \notin {"str", "list", "tuple"}
    \/ \E i \in 1..Len(v.items) : v.items[i].t # "str"

RECURSIVE Texts(_)
Texts(xs) == IF xs = <<>> THEN <<>> ELSE <<Head(xs).s>> \o Texts(Tail(xs))

\* "\n".join(messages)
JoinMessages(v) == Join(NL, IF v.t = "str" THEN Chars(v.s) ELSE Texts(v.items))

\* api_key.lower().startswith("bearer ")
HasBearerPrefix(key) ==
    /\ Len(key) >= 2
    /\ key[1].c \in {"Bearer", "bearer", "BEARER"} /\ key[1].n = 6
    /\ key[2].c = "SP"

\* api_key.split(" ", 1)[1]
AfterFirstBlank(key) ==
    IF key[2].n = 1 THEN SubSeq(key, 3, Len(key))
    ELSE <<Run("SP", key[2].n - 1)>> \o SubSeq(key, 3, Len(key))

\* (OPENAI_API_KEY or "").strip(), then the Bearer prefix removed
ApiKey(key) ==
    LET stripped == IF Truthy(key) THEN Strip(key.s) ELSE Empty
    IN  IF HasBearerPrefix(stripped) THEN AfterFirstBlank(stripped) ELSE stripped

OpenAIPost(name, prompt, api_key) ==
    [url |-> OPENAI_URL,
     json |-> [model |-> name,
               messages |-> <<[role |-> "user", content |-> prompt]>>,
               max_tokens |-> OPENAI_MAX_TOKENS],
     headers |-> {<<"Authorization", Cat(Cat(Lit("Bearer", 6), SP), api_key)>>,
                  <<"Content-Type", Lit("application/json", 16)>>},
     timeout |-> OPENAI_TIMEOUT]

\* resp.raise_for_status() raises HTTPError for 400 <= status < 600
RaisesForStatus(status_code) == status_code >= 400 /\ status_code < 600

\* the message of that HTTPError: "<status> Client/Server Error: ... for url: <url>"
HttpErrorText(status_code) ==
    Cat(Cat(Cat(Cat(Decimal(status_code), SP), Lit("Error for url:", 14)), SP), OPENAI_URL)

\* the except clauses of call_openai, in the order of the source
OpenAIException(sent, cls, msg) ==
    IF IsInstance(cls, "RequestException") THEN Return(PyStr(ErrOpenAIRequest(msg)), sent)
    ELSE IF IsInstance(cls, "ValueError") THEN Return(PyStr(ERR_OPENAI_JSON), sent)
    ELSE Raise(cls, sent)

\* the lines after data = resp.json(): choices[0].message.content, or "text"
ExtractContent(sent, data) ==
    IF data.t # "dict" THEN OpenAIException(sent, "AttributeError", Empty)
    ELSE LET got     == DictGet(data, Lit("choices", 7), PyNone)
             choices == IF Truthy(got) THEN got ELSE PyList(<<>>)
         IN  IF Truthy(choices) /\ choices.t = "list"
             THEN IF choices.items[1].t # "dict"
                  THEN OpenAIException(sent, "AttributeError", Empty)
                  ELSE LET msg == DictGet(choices.items[1], Lit("message", 7), PyDict(<<>>))
                       IN  IF msg.t # "dict"
                           THEN OpenAIException(sent, "AttributeError", Empty)
                           ELSE Return(DictGet(msg, Lit("content", 7), PyStr(Empty)), sent)
             ELSE Return(DictGet(data, Lit("text", 4), PyStr(Empty)), sent)

\* call_openai(model_name, messages), with key the binding of OPENAI_API_KEY
\* and net what the endpoint does if asked
call_openai(name, msgs, key, net) ==
    IF JoinFails(msgs) THEN Raise("TypeError", <<>>)
    ELSE IF key = Unbound THEN Raise("NameError", <<>>)
    ELSE IF ApiKey(key) = Empty THEN Return(PyStr(ERR_NO_KEY), <<>>)
    ELSE LET sent == <<OpenAIPost(name, JoinMessages(msgs), ApiKey(key))>>
         IN  IF net.k = "raise" THEN OpenAIException(sent, net.cls, net.msg)
             ELSE IF net.status = 401 THEN Return(PyStr(ERR_OPENAI_401), sent)
             ELSE IF RaisesForStatus(net.status)
                  THEN OpenAIException(sent, "HTTPError", HttpErrorText(net.status))
             ELSE IF ~net.json_ok THEN OpenAIException(sent, net.cls, Lit("Expecting value", 15))
             ELSE ExtractContent(sent, net.data)

(***************************************************************************)
(* The Flask handlers                                                      *)
(***************************************************************************)
TRANSLATE_MODEL == PyStr(Lit("Qwen/Qwen3-VL-30B-A3B-Instruct", 30))
JUDGE_MODEL     == PyStr(Lit("claude-sonnet-4-5-20250929", 26))

JUDGE_HEADING    == Lit("Oceni kachestvo perevoda ot 1 do 10 i argumentiruj.", 50)
ORIGINAL_HEADING == Lit("Original:", 9)
TRANSLATION_HEADING == Lit("Perevod:", 8)
PLEASE_ENTER     == Lit("Pozhalujsta, vvedite tekst dlya perevoda.", 39)

\* request.form.get(name, default): an absent field is None in the form
FormGet(field, default) == IF field.t = "None" THEN default ELSE field.s

\* f"Переведи следующий текст на {language}:"
TranslateHeading(language) ==
    Cat(Cat(Cat(Lit("Perevedi sleduyushchij tekst na", 27), SP), language), Lit(":", 1))

translate_messages(language, original_text) ==
    PyList(<<PyStr(TranslateHeading(language)), PyStr(original_text)>>)

\* Mutant of judge_messages: the original text stands where the translation
\* belongs.
judge_messages_Mut(original_text, translation) ==
    PyList(<<PyStr(JUDGE_HEADING), PyStr(ORIGINAL_HEADING), PyStr(original_text),
             PyStr(TRANSLATION_HEADING), PyStr(original_text)>>)

judge_messages(original_text, translation) ==
    PyList(<<PyStr(JUDGE_HEADING), PyStr(ORIGINAL_HEADING), PyStr(original_text),
             PyStr(TRANSLATION_HEADING), translation>>)

\* render_template('index.html', original=..., translation=..., evaluation=..., language=...)
render_template(original, translation, evaluation, language) ==
    [template |-> "index.html", original |-> original, translation |-> translation,
     evaluation |-> evaluation, language |-> language]

NoPage == render_template(PyNone, PyNone, PyNone, PyNone)

\* one bridge call as the handler makes it
\* how a call ended, without the POSTs it made
Result(r) == [kind |-> r.kind, value |-> r.value, exc |-> r.exc]

BridgeCall(fn, name, msgs, r) ==
    [fn |-> fn, model_name |-> name, messages |-> msgs, result |-> Result(r),
     posted |-> Len(r.posts)]

\* What a handler did: the bridge calls it made, the POSTs those made, and the
\* page it rendered, or the exception that left it.
Handled(made, sent, rendered, exc) ==
    [calls |-> made, posts |-> sent, page |-> rendered,
     outcome |-> IF exc = "" THEN Result(Return(PyStr(Lit("index.html", 10)), sent))
                 ELSE Result(Raise(exc, sent))]

\* what the endpoint does on its i-th POST
NetAt(script, i) == IF i <= Len(script) THEN script[i] ELSE NoNet

index_get ==
    Handled(<<>>, <<>>,
            render_template(PyStr(Empty), PyStr(Empty), PyStr(Empty),
                            PyStr(Lit("English", 7))),
            "")

\* Mutant of JudgeStage: a translation that is an error message is not sent
\* to the judge.
JudgeStage_Mut(original_text, language, call1, first, script) ==
    LET translation == first.value
        jmsgs  == judge_messages(original_text, translation)
        second == call_llm(JUDGE_MODEL, jmsgs, NetAt(script, Len(first.posts) + 1))
        call2  == BridgeCall("call_llm", JUDGE_MODEL, jmsgs, second)
        sent   == first.posts \o second.posts
    IN  IF IsErrorText(translation.s)
        THEN Handled(<<call1>>, first.posts,
                     render_template(PyStr(original_text), translation, PyStr(Empty),
                                     PyStr(language)),
                     "")
        ELSE IF second.kind = "raise"
        THEN Handled(<<call1, call2>>, sent, NoPage, second.exc)
        ELSE Handled(<<call1, call2>>, sent,
                     render_template(PyStr(original_text), translation, second.value,
                                     PyStr(language)),
                     "")

\* step 2 of index_post: the judge call on the translation, then the page
JudgeStage(original_text, language, call1, first, script) ==
    LET translation == first.value
        jmsgs  == judge_messages(original_text, translation)
        second == call_llm(JUDGE_MODEL, jmsgs, NetAt(script, Len(first.posts) + 1))
        call2  == BridgeCall("call_llm", JUDGE_MODEL, jmsgs, second)
        sent   == first.posts \o second.posts
    IN  IF second.kind = "raise"
        THEN Handled(<<call1, call2>>, sent, NoPage, second.exc)
        ELSE Handled(<<call1, call2>>, sent,
                     render_template(PyStr(original_text), translation, second.value,
                                     PyStr(language)),
                     "")

\* index_post, for the submitted form and the endpoint's answers in order
index_post(submitted, script) ==
    LET original_text == Strip(FormGet(submitted.text, Empty))
        language      == FormGet(submitted.language, Lit("English", 7))
    IN  IF original_text = Empty
        THEN Handled(<<>>, <<>>,
                     render_template(PyStr(original_text), PyStr(Empty),
                                     PyStr(PLEASE_ENTER), PyStr(language)),
                     "")
        ELSE LET tmsgs == translate_messages(language, original_text)
                 first == call_llm(TRANSLATE_MODEL, tmsgs, NetAt(script, 1))
                 call1 == BridgeCall("call_llm", TRANSLATE_MODEL, tmsgs, first)
             IN  IF first.kind = "raise"
                 THEN Handled(<<call1>>, first.posts, NoPage, first.exc)
                 ELSE JudgeStage(original_text, language, call1, first, script)

(***************************************************************************)
(* Inputs                                                                  *)
(***************************************************************************)
\* the longest list or tuple passed as messages
MaxItems == 2

X(n) == Lit("x", n)

Padded(s) == Cat(Cat(SP, s), NL)

\* str elements: empty, blank, short, padded, and lengths around the ceiling
StrTexts ==
    {Empty, SP, X(1), Padded(Lit("y", 1)), X(4999), X(5000), X(MaxPromptLen),
     Padded(X(MaxPromptLen)), X(MaxPromptLen + 1)}

\* elements of a list: str, None, and an int, which has no strip()
Elems ==
    {PyStr(s) : s \in {Empty, SP, Padded(Lit("y", 1)), X(4999), X(5000)}}
      \cup {PyNone, PyInt(5)}

TupleElems == {PyStr(Padded(Lit("y", 1))), PyNone, PyInt(5)}

RECURSIVE SeqsUpTo(_, _)
SeqsUpTo(S, n) ==
    IF n = 0 THEN {<<>>}
    ELSE LET shorter == SeqsUpTo(S, n - 1)
         IN  shorter \cup {Append(q, e) : q \in {r \in shorter : Len(r) = n - 1}, e \in S}

Messages ==
    {PyStr(s) : s \in StrTexts}
      \cup {PyList(q) : q \in SeqsUpTo(Elems, MaxItems)}
      \cup {PyTuple(q) : q \in SeqsUpTo(TupleElems, MaxItems)}
      \cup {PyNone, PyInt(12345), PyDict(<<Pair(PyStr(X(1)), PyStr(X(1)))>>)}

ModelNames == {TRANSLATE_MODEL, PyStr(Lit("m", 1))}

Dict1(key, v) == PyDict(<<Pair(PyStr(key), v)>>)

MOCKED == Lit("Mocked Translation: The sun is shining.", 39)

\* parsed bodies: with the 'response' key, without it, and not a dict at all
Datas ==
    {Dict1(Lit("response", 8), v) :
        v \in {PyStr(MOCKED), PyStr(Empty), PyStr(X(6000)), PyNone, PyInt(7),
               PyList(<<PyStr(X(1)), PyNone>>), Dict1(Lit("a", 1), PyStr(Cat(X(1), NL)))}}
      \cup {Dict1(Lit("unexpected", 10), PyStr(Lit("value", 5))),
            PyDict(<<Pair(PyStr(Lit("error", 5)), PyStr(Lit("unknown model", 13))),
                     Pair(PyStr(Lit("code", 4)), PyInt(7))>>),
            PyDict(<<>>), PyList(<<PyStr(Lit("response", 8))>>),
            PyStr(Lit("response", 8)), PyNone, PyInt(7)}

OkStatuses  == {200, 302, 399}
ErrStatuses == {400, 401, 404, 500, 600}

Raised ==
    {Raises("Timeout", Empty), Raises("ReadTimeout", Lit("Read timed out.", 15)),
     Raises("ConnectTimeout", Lit("Connection to host timed out.", 29)),
     Raises("ConnectionError", Lit("conn failed", 11)), Raises("ConnectionError", Empty),
     Raises("SSLError", Lit("certificate verify failed", 25)),
     Raises("TooManyRedirects", Lit("Exceeded 30 redirects.", 22)),
     Raises("RequestException", Empty)}

NotJson ==
    {TextResponse(200, Lit("<html>", 6), "JSONDecodeError"),
     TextResponse(200, Empty, "ValueError"),
     TextResponse(302, Lit("<html>", 6), "ValueError"),
     UnreadableResponse(200)}

Failed ==
    {JsonResponse(st, d) : st \in ErrStatuses,
                           d \in {Dict1(Lit("response", 8), PyStr(MOCKED)),
                                  Dict1(Lit("error", 5), PyStr(Lit("unknown model", 13)))}}
      \cup {TextResponse(st, Lit("Internal Server Error", 21), "JSONDecodeError") :
                st \in ErrStatuses}
      \cup {TextResponse(st, Empty, "ValueError") : st \in ErrStatuses}
      \cup {UnreadableResponse(st) : st \in ErrStatuses}

\* what the endpoint may do on a POST of call_llm
Nets == Raised \cup NotJson \cup Failed \cup {JsonResponse(st, d) : st \in OkStatuses, d \in Datas}

\* the submitted form: text and language, None for an absent field
Form(text, language) == [text |-> text, language |-> language]

NoForm == Form(PyNone, PyNone)

FormTexts ==
    {PyNone, PyStr(Empty), PyStr(SP), PyStr(X(1)), PyStr(Padded(Lit("y", 1))),
     PyStr(X(5000)), PyStr(X(9900)), PyStr(X(9963)), PyStr(X(9964)),
     PyStr(X(MaxPromptLen)), PyStr(X(MaxPromptLen + 1))}

Languages == {PyNone, PyStr(Lit("English", 7)), PyStr(Lit("German", 6))}

Forms == {Form(t, l) : t \in FormTexts, l \in Languages}

\* what the endpoint may do on the POSTs of one form submission
HandlerNets ==
    {Raises("Timeout", Empty), Raises("ConnectionError", Lit("conn failed", 11)),
     Raises("RequestException", Empty),
     JsonResponse(200, Dict1(Lit("response", 8), PyStr(MOCKED))),
     JsonResponse(200, Dict1(Lit("response", 8), PyStr(Lit("X", 1)))),
     JsonResponse(200, Dict1(Lit("response", 8), PyStr(Empty))),
     JsonResponse(200, Dict1(Lit("response", 8), PyStr(X(6000)))),
     JsonResponse(200, Dict1(Lit("response", 8), PyNone)),
     JsonResponse(200, Dict1(Lit("unexpected", 10), PyStr(Lit("value", 5)))),
     TextResponse(200, Lit("<html>", 6), "JSONDecodeError"),
     JsonResponse(401, PyDict(<<>>)),
     TextResponse(500, Lit("Internal Server Error", 21), "JSONDecodeError")}

Content(v) == Dict1(Lit("choices", 7), PyList(<<Dict1(Lit("message", 7), v)>>))

\* parsed bodies of the alternate provider
OpenAIDatas ==
    {Content(Dict1(Lit("content", 7), PyStr(MOCKED))),
     Content(Dict1(Lit("content", 7), PyStr(Empty))),
     Content(Dict1(Lit("content", 7), PyNone)),
     Content(PyDict(<<>>)),
     Content(Dict1(Lit("role", 4), PyStr(Lit("assistant", 9)))),
     Content(PyNone),
     Dict1(Lit("choices", 7), PyList(<<PyDict(<<>>)>>)),
     Dict1(Lit("choices", 7), PyList(<<PyStr(X(1))>>)),
     Dict1(Lit("choices", 7), PyList(<<>>)),
     Dict1(Lit("choices", 7), PyNone),
     Dict1(Lit("choices", 7), Dict1(Lit("a", 1), PyStr(X(1)))),
     Dict1(Lit("text", 4), PyStr(MOCKED)),
     Dict1(Lit("error", 5), PyStr(Lit("unknown model", 13))),
     PyDict(<<>>), PyList(<<PyStr(X(1))>>), PyNone}

OpenAIStatuses == {200, 302, 401, 404, 500, 600}

OpenAINets ==
    Raised \cup NotJson
      \cup {JsonResponse(st, d) : st \in OpenAIStatuses, d \in OpenAIDatas}

OpenAIMessages ==
    {PyStr(X(2)), PyStr(Empty), PyList(<<PyStr(X(1)), PyStr(Padded(Lit("y", 1)))>>),
     PyTuple(<<PyStr(X(1))>>), PyList(<<PyStr(X(1)), PyNone>>), PyInt(12345)}

Keys ==
    {Unbound, PyNone, PyStr(Empty), PyStr(SP), PyStr(Lit("sk-key", 6)),
     PyStr(Padded(Cat(Cat(Lit("Bearer", 6), SP), Lit("sk-key", 6)))),
     PyStr(Cat(Cat(Lit("bearer", 6), Cat(SP, SP)), Lit("sk-key", 6)))}

(***************************************************************************)
(* The state machine: one invocation, from its inputs to its result        *)
(***************************************************************************)
NoOutcome == [kind |-> "none", value |-> PyNone, exc |-> ""]

Init ==
    /\ pc = "ready"
    /\ outcome = NoOutcome
    /\ calls = <<>>
    /\ posts = <<>>
    /\ page = NoPage
    /\ \/ /\ op = "call_llm"
          /\ model_name \in ModelNames
          /\ messages \in Messages
          /\ endpoint \in {<<n>> : n \in Nets}
          /\ form = NoForm
          /\ OPENAI_API_KEY = Unbound
       \/ /\ op = "call_openai"
          /\ model_name \in ModelNames
          /\ messages \in OpenAIMessages
          /\ endpoint \in {<<n>> : n \in OpenAINets}
          /\ form = NoForm
          /\ OPENAI_API_KEY \in Keys
       \/ /\ op = "index_post"
          /\ model_name = PyNone
          /\ messages = PyNone
          /\ endpoint \in {<<a, b>> : a \in HandlerNets, b \in HandlerNets}
          /\ form \in Forms
          /\ OPENAI_API_KEY = Unbound
       \/ /\ op = "index_get"
          /\ model_name = PyNone
          /\ messages = PyNone
          /\ endpoint = <<>>
          /\ form = NoForm
          /\ OPENAI_API_KEY = Unbound

Inputs == <<op, model_name, messages, form, endpoint, OPENAI_API_KEY>>

\* a direct call of call_llm
CallLLM ==
    /\ pc = "ready" /\ op = "call_llm"
    /\ LET r == call_llm(model_name, messages, NetAt(endpoint, 1))
       IN  /\ outcome' = Result(r)
           /\ posts' = r.posts
           /\ calls' = <<BridgeCall("call_llm", model_name, messages, r)>>
    /\ pc' = "done"
    /\ UNCHANGED <<Inputs, page>>

\* a direct call of call_openai
CallOpenAI ==
    /\ pc = "ready" /\ op = "call_openai"
    /\ LET r == call_openai(model_name, messages, OPENAI_API_KEY, NetAt(endpoint, 1))
       IN  /\ outcome' = Result(r)
           /\ posts' = r.posts
           /\ calls' = <<BridgeCall("call_openai", model_name, messages, r)>>
    /\ pc' = "done"
    /\ UNCHANGED <<Inputs, page>>

\* GET /
IndexGet ==
    /\ pc = "ready" /\ op = "index_get"
    /\ outcome' = index_get.outcome
    /\ posts' = index_get.posts
    /\ calls' = index_get.calls
    /\ page' = index_get.page
    /\ pc' = "done"
    /\ UNCHANGED Inputs

\* POST /
IndexPost ==
    /\ pc = "ready" /\ op = "index_post"
    /\ LET h == index_post(form, endpoint)
       IN  /\ outcome' = h.outcome
           /\ posts' = h.posts
           /\ calls' = h.calls
           /\ page' = h.page
    /\ pc' = "done"
    /\ UNCHANGED Inputs

Next == CallLLM \/ CallOpenAI \/ IndexGet \/ IndexPost

Spec == Init /\ [][Next]_vars

(***************************************************************************)
(* Properties                                                              *)
(***************************************************************************)
Done(o) == pc = "done" /\ op = o

\* the outcome of the endpoint that a direct call met
Net == NetAt(endpoint, 1)

\* Every element of the sequence is a str or None, so that the joined prompt exists.
Joinable(v) ==
    /\ v.t \in {"str", "list", "tuple"}
    /\ v.t # "str" => \A i \in 1..Len(v.items) : v.items[i].t \in {"str", "None"}

\* The joined prompt as the specification words it: the trimmed non-null
\* elements, in order, one newline between neighbours.
RECURSIVE JoinedElements(_)
JoinedElements(ms) ==
    IF ms = <<>> THEN Empty
    ELSE LET init == SubSeq(ms, 1, Len(ms) - 1)
             last == ms[Len(ms)]
         IN  IF last.t = "None" THEN JoinedElements(init)
             ELSE IF \A i \in 1..Len(init) : init[i].t = "None" THEN Strip(last.s)
             ELSE Cat(Cat(JoinedElements(init), NL), Strip(last.s))

JoinedPrompt(v) == IF v.t = "str" THEN Strip(v.s) ELSE JoinedElements(v.items)

BlankPrompt(v) == \A i \in 1..Len(JoinedPrompt(v)) : JoinedPrompt(v)[i].c \in Whitespace

\* the three rejections of the specification, in the order it checks them
Rejection(v) ==
    IF v.t \notin {"str", "list", "tuple"} THEN "type"
    ELSE IF ~Joinable(v) THEN "none"
    ELSE IF BlankPrompt(v) THEN "empty"
    ELSE IF PyLen(JoinedPrompt(v)) > 10000 THEN "long"
    ELSE "none"

\* a joined prompt that is non-empty and at most 10,000 characters
Accepted(v) == Joinable(v) /\ Rejection(v) = "none"

\* C1: call_llm never propagates an exception: whatever model_name, messages
\* (of any type, lists with elements that are not strings included) and the
\* endpoint's outcome are, the call ends by returning a string.
C1_AlwaysReturnsString ==
    Done("call_llm") => outcome.kind = "return" /\ outcome.value.t = "str"

\* C2: one call_llm makes no POST when the input is rejected (wrong type,
\* empty or blank prompt, prompt over 10,000 characters), each rejection
\* returning its own error string, and exactly one POST otherwise; a prompt
\* of exactly 10,000 characters is not rejected.
C2_PostCount ==
    Done("call_llm") =>
        /\ Rejection(messages) = "type"
             => Len(posts) = 0 /\ outcome.value = PyStr(ERR_TYPE)
        /\ Rejection(messages) = "empty"
             => Len(posts) = 0 /\ outcome.value = PyStr(ERR_EMPTY)
        /\ Rejection(messages) = "long"
             => Len(posts) = 0 /\ outcome.value = PyStr(ERR_TOO_LONG)
        /\ Rejection(messages) = "none" => Len(posts) = 1
        /\ Cardinality({ERR_TYPE, ERR_EMPTY, ERR_TOO_LONG}) = 3

\* C2, on the inputs whose elements are all str or None: the POST count and
\* the rejection strings are as C2 says.
C2_PostCountWhenJoinable ==
    Done("call_llm") /\ Joinable(messages) =>
        /\ Rejection(messages) = "empty"
             => Len(posts) = 0 /\ outcome.value = PyStr(ERR_EMPTY)
        /\ Rejection(messages) = "long"
             => Len(posts) = 0 /\ outcome.value = PyStr(ERR_TOO_LONG)
        /\ Rejection(messages) = "none" => Len(posts) = 1

KindOf(cls) ==
    IF cls \in {"Timeout", "ReadTimeout", "ConnectTimeout"} THEN "timeout"
    ELSE IF cls \in {"ConnectionError", "SSLError"} THEN "connection"
    ELSE "other"

\* C4: when the POST raises, the result is one of three pairwise distinct
\* strings chosen by the kind of exception: the timeout message for a
\* Timeout, the connection-failure message for a ConnectionError, the
\* generic request-failure message for any other RequestException; a timeout
\* is never reported as a connection failure, nor the reverse.
C4_TransportErrors ==
    Done("call_llm") /\ Len(posts) = 1 /\ Net.k = "raise" =>
        LET v      == outcome.value.s
            isTime == v = ERR_TIMEOUT
            isConn == StartsWith(v, Cat(Lit("Oshibka soedineniya s LLM:", 24), SP))
            isReq  == StartsWith(v, Cat(Lit("Oshibka zaprosa k LLM:", 21), SP))
        IN  /\ outcome.kind = "return" /\ outcome.value.t = "str"
            /\ KindOf(Net.cls) = "timeout" <=> isTime
            /\ KindOf(Net.cls) = "connection" <=> isConn
            /\ KindOf(Net.cls) = "other" <=> isReq
            /\ Cardinality({k \in {isTime, isConn, isReq} : k}) <= 1
            /\ isConn \/ isReq => Contains(v, Net.msg)

C6_PromptSent ==
    Done("call_llm") /\ Len(posts) = 1 =>
        /\ posts[1].json = [model_name |-> model_name, prompt |-> JoinedPrompt(messages)]
        /\ messages.t = "str" =>
             LET same == call_llm(model_name, PyList(<<messages>>), Net)
             IN  same.posts = posts /\ Result(same) = outcome

\* C7: for a status < 400, a body that cannot be parsed gives the
\* invalid-JSON error string, and a body that parses but is not a mapping
\* with the key 'response' gives an error string that says the 'response'
\* field is absent and contains the raw parsed structure.
C7_ResponseShape ==
    Done("call_llm") /\ Len(posts) = 1 /\ Net.k = "response" /\ Net.status < 400 =>
        /\ ~Net.json_ok => outcome.value = PyStr(ERR_JSON)
        /\ Net.json_ok /\ ~(Net.data.t = "dict" /\ HasKey(Net.data, Lit("response", 8)))
             => /\ outcome.kind = "return" /\ outcome.value.t = "str"
                /\ StartsWith(outcome.value.s,
                     Lit("Oshibka: v otvete otsutstvuet pole 'response' -- polucheno:", 56))
                /\ Contains(outcome.value.s, Str(Net.data))
                /\ PyLen(outcome.value.s) = 57 + PyLen(Str(Net.data))

\* the text of the form, trimmed
Submitted == Strip(FormGet(form.text, Empty))

\* C8: a form submission with non-empty trimmed text makes exactly two
\* bridge calls in order: the translate call, then, once that has returned a
\* string X, the judge call whose messages hold the original text and X; the
\* page shows original, translation = X and evaluation = the judge call's
\* result.  An empty text makes no bridge call.
C8_TwoCallsInOrder ==
    Done("index_post") =>
        /\ Submitted = Empty => calls = <<>> /\ posts = <<>>
        /\ Submitted # Empty =>
             /\ Len(calls) = 2
             /\ calls[1].model_name = TRANSLATE_MODEL
             /\ calls[2].model_name = JUDGE_MODEL
             /\ \E i \in 1..Len(calls[1].messages.items) :
                    calls[1].messages.items[i] = PyStr(Submitted)
             /\ calls[1].result.kind = "return" /\ calls[1].result.value.t = "str"
             /\ \E i, j \in 1..Len(calls[2].messages.items) :
                    /\ i < j
                    /\ calls[2].messages.items[i] = PyStr(Submitted)
                    /\ calls[2].messages.items[j] = calls[1].result.value
             /\ calls[2].result.kind = "return"
             /\ page.original = PyStr(Submitted)
             /\ page.translation = calls[1].result.value
             /\ page.evaluation = calls[2].result.value

\* the parsed body holds no choices[0].message.content
ContentAbsent(data) ==
    /\ data.t = "dict"
    /\ LET choices == DictGet(data, Lit("choices", 7), PyList(<<>>))
       IN  \/ choices.t # "list"
           \/ choices.items = <<>>
           \/ /\ choices.items[1].t = "dict"
              /\ LET msg == DictGet(choices.items[1], Lit("message", 7), PyDict(<<>>))
                 IN  msg.t = "dict" /\ ~HasKey(msg, Lit("content", 7))

\* C9: in call_openai, a response with status < 400 whose body parses but
\* holds no choices[0].message.content (no 'choices', empty 'choices', a
\* first choice without message or content) gives an error string that
\* includes the raw parsed structure, not an empty string.
C9_MissingContentDiagnosed ==
    Done("call_openai") /\ Len(posts) = 1 /\ Net.k = "response" /\ Net.status < 400
        /\ Net.json_ok /\ ContentAbsent(Net.data) =>
        /\ outcome.kind = "return" /\ outcome.value.t = "str"
        /\ outcome.value.s # Empty
        /\ Contains(outcome.value.s, Str(Net.data))

\* the length of the joined judge prompt: the fixed headings, the original
\* text and the translation, four newlines between them
JudgePromptLen(translation) ==
    50 + 1 + 9 + 1 + PyLen(Submitted) + 1 + 8 + 1 + PyLen(Strip(translation))

\* C10: a failed translate stage never suppresses the judge stage: when the
\* first call_llm returns an error string, the handler still calls call_llm
\* for the judge model with that string as the translation, and the judge
\* call is rejected as too long, with no POST, whenever the joined judge
\* prompt is over 10,000 characters, also when the translate call for the
\* same text was accepted.
C10_JudgeAfterFailure ==
    Done("index_post") /\ Len(calls) >= 1 /\ IsErrorText(calls[1].result.value.s) =>
        /\ Len(calls) = 2
        /\ calls[2].model_name = JUDGE_MODEL
        /\ calls[2].messages.items[Len(calls[2].messages.items)] = calls[1].result.value
        /\ JudgePromptLen(calls[1].result.value.s) > 10000
             => calls[2].posted = 0 /\ calls[2].result.value = PyStr(ERR_TOO_LONG)
        /\ JudgePromptLen(calls[1].result.value.s) <= 10000 => calls[2].posted = 1
        /\ page.translation = calls[1].result.value
        /\ page.evaluation = calls[2].result.value

C4_Witness ==
    /\ Done("call_llm") /\ Len(posts) = 1 /\ Net.k = "raise"
    /\ Net.cls = "ConnectTimeout"
    /\ outcome.value = PyStr(ERR_TIMEOUT)

C6_Witness ==
    /\ Done("call_llm") /\ Len(posts) = 1
    /\ messages = PyList(<<PyNone, PyStr(Padded(Lit("y", 1)))>>)
    /\ posts[1].json.prompt = Lit("y", 1)

\* C7: a 200 whose body is the JSON array ["response"] was answered with the
\* missing-field string, the array in it.
C7_Witness ==
    /\ Done("call_llm") /\ Len(posts) = 1 /\ Net.k = "response" /\ Net.status = 200
    /\ Net.json_ok /\ Net.data = PyList(<<PyStr(Lit("response", 8))>>)
    /\ Contains(outcome.value.s,
                Cat(Cat(Lit("[", 1), Cat(Cat(Lit("'", 1), Lit("response", 8)), Lit("'", 1))),
                    Lit("]", 1)))

\* C8: a submission was translated to "X" and judged, two POSTs in all, and
\* the page shows both results.
C8_Witness ==
    /\ Done("index_post") /\ Len(calls) = 2 /\ Len(posts) = 2
    /\ Submitted = Lit("y", 1)
    /\ calls[1].result.value = PyStr(Lit("X", 1))
    /\ calls[2].messages.items[5] = PyStr(Lit("X", 1))
    /\ page.translation = PyStr(Lit("X", 1))
    /\ page.evaluation = PyStr(MOCKED)

\* C10: the translate call was accepted and sent, failed with an error
\* string, and the judge call was then rejected as too long without a POST.
C10_Witness ==
    /\ Done("index_post") /\ Len(calls) = 2
    /\ calls[1].posted = 1 /\ IsErrorText(calls[1].result.value.s)
    /\ calls[2].posted = 0 /\ calls[2].result.value = PyStr(ERR_TOO_LONG)
    /\ Len(posts) = 1
    /\ page.evaluation = PyStr(ERR_TOO_LONG)

====
